---- MODULE Spec2Model ----
(***************************************************************************)
(* Verification model of the crypto-collision-ball metrics-to-behaviour    *)
(* pipeline: PhysicsWorld.update (physics.ts), normalizeAllSeries and      *)
(* computeMetricSeries (metrics.ts), getMetricsAt and main (index.ts).     *)
(*                                                                         *)
(* Numbers.  The program computes in IEEE doubles; the model computes in   *)
(* fixed point on integers, every quantity with a stated unit:             *)
(*   radius, position, velocity : 1/100 (centi-units)                      *)
(*   trend, volatility, smoothedVol, Sharpe ratio : 1/1000 (milli-units)   *)
(*   timers and dt : microseconds                                          *)
(*   hop force : 1/1000000 (micro-units)                                   *)
(* Division rounds toward zero (Div).  NaN is a value of its own: every    *)
(* operation that would yield NaN in the program yields NaN here, and      *)
(* every comparison with NaN is false, as in the program.                  *)
(***************************************************************************)
EXTENDS Integers, Sequences, FiniteSets, TLC

VARIABLES
    coinBodies,         \* PhysicsWorld.coinBodies: id -> CoinBody
    frameNo,            \* number of PhysicsWorld.update calls made so far (main's f)
    prices,             \* MarketChartData.prices handed to computeMetricSeries
    windowHours,        \* config.windowHours
    metricSeries,       \* what computeMetricSeries returned (empty before the call)
    coinMetrics,        \* main's coinMetrics map: id -> MetricSeries[]
    normalizeCalls,     \* calls of normalizeAllSeries made so far
    timesNormalized,    \* id -> how often the series stored for id was normalized
    currentDataTime,    \* the time of the last getMetricsAt queries
    currentMetrics,     \* main's currentMetrics map of the last frame: id -> {trend, vol}
    pc,                 \* main's position
    coins,              \* what fetchTopCoins returned
    coinIdx,            \* position of main's `for (const coin of coins)` loop
    referenceTimestamps,
    validCoinIds,
    pipePc,             \* pipeline's position
    pipeCoins,          \* pipeline's `coins`: what generateVideo() returned
    outputFiles,        \* the names of the files in config.outputDir
    pipeLog,            \* the pipeline steps attempted so far, in order
    uploaded,           \* uploader.uploadVideo has resolved
    failure,            \* the step that failed, "none" if none did
    exitCode,           \* the status of process.exit, -1 while the process runs
    cacheDirExists,     \* config.cacheDir is a directory on disk
    cacheFiles,         \* key -> the file <cacheDir>/<key>.json: exists, mtimeMs, content
    now,                \* Date.now(), ms
    cacheCall           \* the last call of fetchWithCache: what it did and how it ended

physVars == <<coinBodies, frameNo>>
metricVars == <<prices, windowHours, metricSeries>>
normVars == <<coinMetrics, normalizeCalls, timesNormalized>>
samplerVars == <<currentDataTime, currentMetrics>>
mainVars == <<pc, coins, coinIdx, referenceTimestamps, validCoinIds>>
pipeVars == <<pipePc, pipeCoins, outputFiles, pipeLog, uploaded, failure, exitCode>>
cacheVars == <<cacheDirExists, cacheFiles, now, cacheCall>>
vars == <<coinBodies, frameNo, prices, windowHours, metricSeries,
          coinMetrics, normalizeCalls, timesNormalized,
          currentDataTime, currentMetrics,
          pc, coins, coinIdx, referenceTimestamps, validCoinIds,
          pipePc, pipeCoins, outputFiles, pipeLog, uploaded, failure, exitCode,
          cacheDirExists, cacheFiles, now, cacheCall>>

----------------------------------------------------------------------------
(* Arithmetic helpers *)

NaN == -2000000000

Abs(x) == IF x < 0 THEN -x ELSE x

\* a / b rounded toward zero (b # 0)
Div(a, b) ==
    IF (a >= 0) = (b > 0) THEN Abs(a) \div Abs(b) ELSE -(Abs(a) \div Abs(b))

Max2(a, b) == IF a >= b THEN a ELSE b
Min2(a, b) == IF a <= b THEN a ELSE b

\* Math.max / Math.min return NaN when an argument is NaN
MathMax(a, b) == IF a = NaN \/ b = NaN THEN NaN ELSE Max2(a, b)
MathMin(a, b) == IF a = NaN \/ b = NaN THEN NaN ELSE Min2(a, b)

RECURSIVE SqrtSearch(_, _, _)
SqrtSearch(x, lo, hi) ==
    IF lo >= hi THEN lo
    ELSE LET mid == (lo + hi + 1) \div 2
         IN  IF mid * mid <= x THEN SqrtSearch(x, mid, hi)
             ELSE SqrtSearch(x, lo, mid - 1)

\* floor of the square root of x >= 0
ISqrt(x) == SqrtSearch(x, 0, 40000)

\* Matter.Vector.magnitude, in the unit of the vector's components
Magnitude(v) == ISqrt(v[1] * v[1] + v[2] * v[2])

\* |v| > limit, decided on the squares (exact)
FasterThan(v, limit) == v[1] * v[1] + v[2] * v[2] > limit * limit
SlowerThan(v, limit) == v[1] * v[1] + v[2] * v[2] < limit * limit

----------------------------------------------------------------------------
(* Exact arithmetic for metrics.ts and getMetricsAt: a number is a reduced *)
(* fraction <<n, d>> with d > 0; <<0, 0>> is NaN (the result of 0 / 0).    *)
(* A division of a non-zero number by zero (Infinity in the program) is    *)
(* reached by none of the modelled computations and is folded into NaN.    *)

RatNaN == <<0, 0>>

RECURSIVE Gcd(_, _)
Gcd(a, b) == IF b = 0 THEN a ELSE Gcd(b, a % b)

Rat(n, d) ==
    IF d = 0 THEN RatNaN
    ELSE LET g == Gcd(Abs(n), Abs(d))
             sgn == IF d < 0 THEN -1 ELSE 1
         IN  <<Div(sgn * n, g), Div(sgn * d, g)>>

ToRat(i) == <<i, 1>>
RatZero == <<0, 1>>
IsRatNaN(a) == a[2] = 0

RatAdd(a, b) ==
    IF IsRatNaN(a) \/ IsRatNaN(b) THEN RatNaN
    ELSE Rat(a[1] * b[2] + b[1] * a[2], a[2] * b[2])

RatSub(a, b) ==
    IF IsRatNaN(a) \/ IsRatNaN(b) THEN RatNaN
    ELSE Rat(a[1] * b[2] - b[1] * a[2], a[2] * b[2])

RatMul(a, b) ==
    IF IsRatNaN(a) \/ IsRatNaN(b) THEN RatNaN
    ELSE Rat(a[1] * b[1], a[2] * b[2])

RatDiv(a, b) ==
    IF IsRatNaN(a) \/ IsRatNaN(b) THEN RatNaN
    ELSE Rat(a[1] * b[2], a[2] * b[1])

\* a < b, a <= b, a === b: false when either is NaN
RatLt(a, b) == ~IsRatNaN(a) /\ ~IsRatNaN(b) /\ a[1] * b[2] < b[1] * a[2]
RatLe(a, b) == ~IsRatNaN(a) /\ ~IsRatNaN(b) /\ a[1] * b[2] <= b[1] * a[2]
RatEq(a, b) == ~IsRatNaN(a) /\ ~IsRatNaN(b) /\ a = b

\* Math.sqrt of a >= 0, to 1/1000 and rounded up, so that only 0 has root 0;
\* Math.sqrt(-0) is -0, which equals 0
RatSqrt(a) ==
    IF IsRatNaN(a) \/ a[1] < 0 THEN RatNaN
    ELSE LET x == (a[1] * 1000000) \div a[2]
             s == ISqrt(x)
         IN  IF s * s * a[2] = a[1] * 1000000 THEN Rat(s, 1000) ELSE Rat(s + 1, 1000)

----------------------------------------------------------------------------
(* PhysicsWorld: constants of physics.ts and config.ts *)

width == 1080                   \* config.width, px
boxMargin == 60                 \* px
boxTop == 400                   \* px
HOP_INTERVAL_MS == 4000         \* ms
r_min == 2000                   \* 20, centi
r_max == 13000                  \* 130, centi
r0 == 4200                      \* 42, centi
k_trend == 2500                 \* 2.5, milli
radius_follow_alpha == 50       \* 0.05, milli
radius_change_min == 10         \* 0.1, centi
vol_follow_alpha == 20          \* 0.02, milli
STUN_VELOCITY == 1500           \* 15.0, centi
RECOVERY_VELOCITY == 100        \* 1.0, centi
v_max == 1200                   \* 12, centi
vol_epsilon == 100              \* 0.1, milli
sharpe_clamp == 5000            \* 5, milli
hop_frames == 5
hop_interval_min == 150         \* ms
hop_interval_span == 3850       \* ms
force_per_area == 2             \* 0.0002, in 1/10000
force_factor_min == 50          \* 0.05, milli
force_factor_span == 2950       \* 2.95, milli
wall_buffer == 500              \* 5, centi
fps == 30                       \* config.fps

\* const dtMs = 1000 / config.fps, in microseconds
dtMs == Div(1000 * 1000, fps)

(* Bounds of the model *)
MaxFrames == 4                  \* update calls explored
CoinIds == {"bitcoin"}          \* ids handed to setupCoins

\* Math.random() * HOP_INTERVAL_MS, in microseconds: values in [0, 4000 ms)
InitialTimers == {10 * 1000, 40 * 1000}

\* spawn points of setupCoins: inside the box, r0 + 10 away from every wall
SpawnPositions == {<<54000, 88000>>}

\* Math.random() * 2 * Math.PI, in quarter turns
RandomAngles == {0, 1}

\* What getMetricsAt hands to update for one body: trend and vol, milli.
Samples ==
    { [trend |-> 1000, vol |-> 0],
      [trend |-> -1000, vol |-> 1000],
      [trend |-> -3000, vol |-> 500],        \* a trend below the normalized range
      [trend |-> NaN, vol |-> -1000] }

\* coinMetrics.get(cb.id) of an id the map does not hold (undefined)
NoMetrics == [undefined |-> TRUE]

(* Matter.Engine.update integrates the bodies and resolves collisions       *)
(* (restitution 1.1 makes a rebound faster than the impact).  The engine is *)
(* an external collaborator: each call leaves a body at one of these        *)
(* positions with one of these velocities (centi-units).                    *)
EngineOutcomes ==
    { [position |-> <<54000, 88000>>, velocity |-> <<0, 0>>],          \* at rest, mid-box
      [position |-> <<54000, 88000>>, velocity |-> <<60, 80>>],        \* speed 1.0
      [position |-> <<10200, 88000>>, velocity |-> <<300, 400>>],      \* touching the left wall, speed 5
      [position |-> <<97800, 131800>>, velocity |-> <<780, 1040>>],    \* in the bottom-right corner, speed 13
      [position |-> <<54000, 88000>>, velocity |-> <<900, -1200>>],    \* speed 15
      [position |-> <<10200, 88000>>, velocity |-> <<-960, 1280>>] }   \* touching the left wall, speed 16

Cos(a) == CASE a = 0 -> 1 [] a = 1 -> 0 [] a = 2 -> -1 [] OTHER -> 0
Sin(a) == CASE a = 0 -> 0 [] a = 1 -> 1 [] a = 2 -> 0 [] OTHER -> -1

\* setupCoins: the CoinBody stored for one id
NewCoinBody(pos, initialTimer) ==
    [ radius |-> r0,
      smoothedVol |-> 0,
      timeUntilNextHop |-> initialTimer,
      isHopping |-> FALSE,
      hopFrameCount |-> 0,
      hopForceMagnitude |-> 0,
      hopAngle |-> 0,
      isStunned |-> FALSE,
      position |-> pos,          \* body.position
      velocity |-> <<0, 0>>,     \* body.velocity
      force |-> <<0, 0>>,        \* body.force, cleared by every engine update
      clamped |-> FALSE,         \* update's local `clamped` of the last call
      cappedVelocity |-> <<0, 0>>,   \* body.velocity after the cap of the last call
      engineVelocity |-> <<0, 0>> ]  \* body.velocity as the last engine update left it

\* the radius target without its clamp to [r_min, r_max]
RTargetUnclamped(trend) ==
    IF trend = NaN THEN NaN
    ELSE r0 + Div(r0 * Div(k_trend * trend, 1000), 1000)

\* Math.max(r_min, Math.min(r_max, r0 * (1 + k_trend * trend)))
RTarget(trend) ==
    IF trend = NaN THEN NaN
    ELSE MathMax(r_min, MathMin(r_max, r0 + Div(r0 * Div(k_trend * trend, 1000), 1000)))

\* cb.radius + (r_target - cb.radius) * radius_follow_alpha
NewRadius(radius, trend) ==
    IF RTarget(trend) = NaN THEN NaN
    ELSE radius + Div((RTarget(trend) - radius) * radius_follow_alpha, 1000)

\* step A without the test Math.abs(newR - cb.radius) > 0.1
StepRadiusNoThreshold(radius, trend) ==
    LET newR == NewRadius(radius, trend)
    IN  IF newR # NaN THEN newR ELSE radius

\* the radius after step A: changed only if Math.abs(newR - cb.radius) > 0.1
StepRadius(radius, trend) ==
    LET newR == NewRadius(radius, trend)
    IN  IF newR # NaN /\ Abs(newR - radius) > radius_change_min THEN newR ELSE radius

\* cb.smoothedVol + (vol - cb.smoothedVol) * vol_follow_alpha
StepSmoothedVol(smoothedVol, vol) ==
    IF smoothedVol = NaN \/ vol = NaN THEN NaN
    ELSE smoothedVol + Div((vol - smoothedVol) * vol_follow_alpha, 1000)

\* the ratio trend / (effectiveVol + 0.1) without the clamp to [-5, 5]
SharpeNotClamped(trend, effectiveVol) ==
    LET safeVol == IF effectiveVol = NaN THEN NaN ELSE effectiveVol + vol_epsilon
    IN  IF trend = NaN \/ safeVol = NaN \/ safeVol = 0 THEN NaN
        ELSE Div(trend * 1000, safeVol)

\* Math.max(-5, Math.min(5, trend / (effectiveVol + 0.1))), milli
ClampedSharpe(trend, effectiveVol) ==
    LET safeVol == IF effectiveVol = NaN THEN NaN ELSE effectiveVol + vol_epsilon
    IN  IF trend = NaN \/ safeVol = NaN THEN NaN
        ELSE IF safeVol = 0
             THEN (IF trend > 0 THEN sharpe_clamp
                   ELSE IF trend < 0 THEN -sharpe_clamp ELSE NaN)
             ELSE MathMax(-sharpe_clamp, MathMin(sharpe_clamp, Div(trend * 1000, safeVol)))

\* (clampedSharpe + 5) / 10, milli: 0 .. 1000
NormSharpe(trend, effectiveVol) ==
    LET c == ClampedSharpe(trend, effectiveVol)
    IN  IF c = NaN THEN NaN ELSE Div(c + sharpe_clamp, 10)

\* 150 + 3850 * normSharpe, microseconds
NextHopInterval(normSharpe) ==
    IF normSharpe = NaN THEN NaN
    ELSE hop_interval_min * 1000 + hop_interval_span * normSharpe

\* (cb.radius * cb.radius) * force_per_area * (0.05 + 2.95 * normSharpe), micro
HopStrength(radius, normSharpe) ==
    IF normSharpe = NaN THEN NaN
    ELSE LET area == Div(radius * radius, 1000)     \* in 1/10
             factor == force_factor_min + Div(force_factor_span * normSharpe, 1000)
         IN  Div(area * factor * force_per_area, 100)

\* { x: Math.cos(cb.hopAngle) * strength, y: Math.sin(cb.hopAngle) * strength }
HopForce(angle, strength) ==
    IF strength = NaN THEN <<NaN, NaN>>
    ELSE <<Cos(angle) * strength, Sin(angle) * strength>>

\* an application that adds the force twice
ApplyForceTwice(force, f) ==
    IF f[1] = NaN \/ force[1] = NaN THEN <<NaN, NaN>>
    ELSE <<force[1] + 2 * f[1], force[2] + 2 * f[2]>>

\* Matter.Body.applyForce: body.force += force
ApplyForce(force, f) ==
    IF f[1] = NaN \/ force[1] = NaN THEN <<NaN, NaN>>
    ELSE <<force[1] + f[1], force[2] + f[2]>>

\* a countdown that takes two steps off the timer
CountDownTwoSteps(timer, dt) == IF timer = NaN THEN NaN ELSE timer - 2 * dt

\* cb.timeUntilNextHop -= dtMs
CountDown(timer, dt) == IF timer = NaN THEN NaN ELSE timer - dt

\* Matter.Vector.mult(Matter.Vector.normalise(v), v_max) when speed > v_max
CapVelocity(v) ==
    IF FasterThan(v, v_max)
    THEN <<Div(v[1] * v_max, Magnitude(v)), Div(v[2] * v_max, Magnitude(v))>>
    ELSE v

\* the arena interior of a body of this radius: [lo, hi] on each axis
MinX(radius) == boxMargin * 100 + radius + wall_buffer
MaxX(radius) == width * 100 - boxMargin * 100 - radius - wall_buffer
MinY(radius) == boxTop * 100 + radius + wall_buffer
MaxY(radius) == boxTop * 100 + (width * 100 - 2 * boxMargin * 100) - radius - wall_buffer

ClampCoord(x, lo, hi) == IF x < lo THEN lo ELSE IF x > hi THEN hi ELSE x

ClampPosition(pos, radius) ==
    << ClampCoord(pos[1], MinX(radius), MaxX(radius)),
       ClampCoord(pos[2], MinY(radius), MaxY(radius)) >>

\* velocity * 0.5 on each axis
HalveVelocity(v) == <<Div(v[1], 2), Div(v[2], 2)>>

\* stun entry that leaves the hop flag as it was
EnterStunKeepHop(b) == [b EXCEPT !.isStunned = TRUE]

\* stun entry placed after the hop logic: a hop in progress applies its force first
EnterStunAfterHop(b) ==
    IF b.isHopping /\ b.hopFrameCount > 0
    THEN [b EXCEPT !.isStunned = TRUE, !.isHopping = FALSE,
                   !.force = ApplyForce(b.force, HopForce(b.hopAngle, b.hopForceMagnitude)),
                   !.hopFrameCount = b.hopFrameCount - 1]
    ELSE [b EXCEPT !.isStunned = TRUE, !.isHopping = FALSE]

\* if (currentSpeed > STUN_VELOCITY) { cb.isStunned = true; cb.isHopping = false; return; }
EnterStun(b) == [b EXCEPT !.isStunned = TRUE, !.isHopping = FALSE]

\* still stunned: cb.isHopping = false; return;
StayStunned(b) == [b EXCEPT !.isHopping = FALSE]

\* a recovery that leaves the stun flag set
RecoverKeepsStun(b) == b

\* if (currentSpeed < RECOVERY_VELOCITY) cb.isStunned = false; the update goes on
Recover(b) == [b EXCEPT !.isStunned = FALSE]

(***************************************************************************)
(* PhysicsWorld.update for one body: the callback of coinBodies.forEach,   *)
(* after Matter.Engine.update has left the body at `eng`.  `metrics` is    *)
(* coinMetrics.get(cb.id), `angle` the value Math.random() * 2 * PI would  *)
(* yield if drawn, `dt` the step in microseconds.                          *)
(***************************************************************************)
UpdateBody(cb, metrics, eng, angle, dt) ==
    LET \* 1. Matter.Engine.update: integrate, then clear the applied forces
        b0 == [cb EXCEPT !.position = eng.position, !.velocity = eng.velocity,
                         !.force = <<0, 0>>, !.clamped = FALSE,
                         !.cappedVelocity = eng.velocity,
                         !.engineVelocity = eng.velocity]
        trend == metrics.trend
        vol == metrics.vol
        \* A. target radius, B. smoothed volatility
        b1 == [b0 EXCEPT !.radius = StepRadius(cb.radius, trend),
                         !.smoothedVol = StepSmoothedVol(cb.smoothedVol, vol)]
        normSharpe == NormSharpe(trend, b1.smoothedVol)
        \* C. hop logic, reached only when the stun logic did not return
        hopped ==
            IF b1.isHopping
            THEN IF b1.hopFrameCount > 0
                 THEN [b1 EXCEPT
                         !.force = ApplyForce(b1.force,
                                     HopForce(b1.hopAngle, b1.hopForceMagnitude)),
                         !.hopFrameCount = b1.hopFrameCount - 1]
                 ELSE [b1 EXCEPT !.isHopping = FALSE,
                                 !.timeUntilNextHop = NextHopInterval(normSharpe)]
            ELSE LET t == CountDown(b1.timeUntilNextHop, dt)
                 IN  IF t # NaN /\ t <= 0
                     THEN [b1 EXCEPT !.timeUntilNextHop = t,
                                     !.isHopping = TRUE,
                                     !.hopFrameCount = hop_frames,
                                     !.hopForceMagnitude = HopStrength(b1.radius, normSharpe),
                                     !.hopAngle = angle]
                     ELSE [b1 EXCEPT !.timeUntilNextHop = t]
        \* cap velocity, then the strict boundary check
        capped == CapVelocity(hopped.velocity)
        inside == ClampPosition(hopped.position, hopped.radius)
        isClamped == inside # hopped.position
        finished ==
            [hopped EXCEPT !.position = inside,
                           !.clamped = isClamped,
                           !.cappedVelocity = capped,
                           !.velocity = IF isClamped THEN HalveVelocity(capped) ELSE capped]
    IN  IF metrics = NoMetrics THEN b0
        ELSE IF cb.isStunned
        THEN IF SlowerThan(b0.velocity, RECOVERY_VELOCITY)
             THEN Recover(finished)
             ELSE StayStunned(b1)
        ELSE IF FasterThan(b0.velocity, STUN_VELOCITY)
             THEN EnterStun(b1)
             ELSE finished

\* setupCoins(validCoinIds), then the state the frame loop starts from
MetricsIdle == prices = <<>> /\ windowHours = 0 /\ metricSeries = <<>>
NormalizerIdle == coinMetrics = <<>> /\ normalizeCalls = 0 /\ timesNormalized = <<>>
SamplerIdle == currentDataTime = <<0, 1>> /\ currentMetrics = <<>>
MainIdle ==
    /\ pc = "idle"
    /\ coins = <<>>
    /\ coinIdx = 0
    /\ referenceTimestamps = <<>>
    /\ validCoinIds = <<>>
\* fetchWithCache has not been called
NoCall ==
    [key |-> "none", fetchCalls |-> 0, fetched |-> "not called",
     outcome |-> "none", data |-> "none"]
CacheIdle ==
    /\ cacheDirExists = TRUE
    /\ cacheFiles = <<>>
    /\ now = 0
    /\ cacheCall = NoCall
PipelineIdle ==
    /\ pipePc = "idle"
    /\ pipeCoins = <<>>
    /\ outputFiles = {}
    /\ pipeLog = <<>>
    /\ uploaded = FALSE
    /\ failure = "none"
    /\ exitCode = -1

InitPhysics ==
    /\ CacheIdle
    /\ PipelineIdle
    /\ MetricsIdle
    /\ NormalizerIdle
    /\ SamplerIdle
    /\ MainIdle
    /\ coinBodies \in [CoinIds -> {NewCoinBody(p, t) : p \in SpawnPositions, t \in InitialTimers}]
    /\ frameNo = 0

\* The draws of Math.random() an update of this body can make: the hop angle is
\* drawn only when a hop starts, which a body in a hop never does.
AngleDraws(cb) == IF cb.isHopping THEN {0} ELSE RandomAngles

\* world.update(dtMs, sampled): Matter.Engine.update leaves every body at one of
\* `outcomes`, then the forEach callback runs on every body; sampled is the map
\* id -> {trend, vol} (milli) handed in
UpdateWorld(sampled, outcomes) ==
    LET ids == DOMAIN coinBodies
    IN  \E eng \in [ids -> outcomes] :
            \E angle \in [ids -> UNION {AngleDraws(coinBodies[id]) : id \in ids}] :
                /\ \A id \in ids : angle[id] \in AngleDraws(coinBodies[id])
                /\ coinBodies' = [id \in ids |->
                       UpdateBody(coinBodies[id],
                                  IF id \in DOMAIN sampled THEN sampled[id] ELSE NoMetrics,
                                  eng[id], angle[id], dtMs)]

\* one frame of main's simulation loop, the sampled metrics being any of Samples
Update ==
    /\ frameNo < MaxFrames
    /\ \E sampled \in [CoinIds -> Samples] : UpdateWorld(sampled, EngineOutcomes)
    /\ frameNo' = frameNo + 1
    /\ UNCHANGED <<cacheVars, pipeVars, metricVars, normVars, samplerVars, mainVars>>

NextPhysics == Update

SpecPhysics == InitPhysics /\ [][NextPhysics]_vars

----------------------------------------------------------------------------
(* Claims about PhysicsWorld.update, checked under SpecPhysics *)

\* C1: after every update call, every body's speed is at most v_max,
\* whatever its state.
C1_SpeedCappedAfterUpdate ==
    frameNo > 0 => \A id \in CoinIds : ~FasterThan(coinBodies[id].velocity, v_max)

\* C2: after every update call, every body's radius lies in [r_min, r_max].
C2_RadiusInRange ==
    \A id \in CoinIds :
        /\ coinBodies[id].radius # NaN
        /\ coinBodies[id].radius >= r_min
        /\ coinBodies[id].radius <= r_max

\* a body whose radius has been pulled down toward a target that the clamp
\* raised to r_min (trend -3 asks for a negative radius)
C2_Witness ==
    \E id \in CoinIds : frameNo >= 2 /\ coinBodies[id].radius < r0 - 200

\* C3: no body is hopping and stunned at once.
C3_NotHoppingAndStunned ==
    \A id \in CoinIds : ~(coinBodies[id].isHopping /\ coinBodies[id].isStunned)

\* a body stunned in the middle of a hop: force frames were still pending
C3_Witness ==
    \E id \in CoinIds :
        /\ coinBodies[id].isStunned
        /\ coinBodies[id].hopFrameCount > 0
        /\ coinBodies[id].hopFrameCount < hop_frames

InsideArena(b) ==
    /\ b.position[1] >= MinX(b.radius)
    /\ b.position[1] <= MaxX(b.radius)
    /\ b.position[2] >= MinY(b.radius)
    /\ b.position[2] <= MaxY(b.radius)

\* C4: after every update call every body's centre lies inside the arena
\* inset by radius + 5, and a body whose position was clamped has had its
\* velocity halved.
C4_InsideArenaAfterUpdate ==
    frameNo > 0 =>
        \A id \in CoinIds :
            /\ InsideArena(coinBodies[id])
            /\ coinBodies[id].clamped =>
                 coinBodies[id].velocity = HalveVelocity(coinBodies[id].cappedVelocity)

\* C14: whatever the sampled input (NaN trend, negative or zero volatility),
\* the stored hop force magnitude, the force applied to the body, the smoothed
\* volatility and the hop countdown are finite after every update.
C14_MalformedInputStaysOutOfForces ==
    \A id \in CoinIds :
        /\ coinBodies[id].hopForceMagnitude # NaN
        /\ coinBodies[id].force[1] # NaN
        /\ coinBodies[id].force[2] # NaN
        /\ coinBodies[id].smoothedVol # NaN
        /\ coinBodies[id].timeUntilNextHop # NaN

\* C20: in an update where a body that is not stunned comes out of the engine
\* faster than STUN_VELOCITY, the body becomes stunned and no hop force is
\* applied, even if it was hopping with force frames left: the hop flag is
\* cleared and no force frame is used up.
C20_StunBeforeHop ==
    [][ frameNo' = frameNo + 1 =>
          \A id \in CoinIds :
              (~coinBodies[id].isStunned
                 /\ FasterThan(coinBodies'[id].engineVelocity, STUN_VELOCITY)) =>
                  /\ coinBodies'[id].isStunned
                  /\ ~coinBodies'[id].isHopping
                  /\ coinBodies'[id].force = <<0, 0>>
                  /\ coinBodies'[id].hopFrameCount = coinBodies[id].hopFrameCount
                  /\ coinBodies'[id].timeUntilNextHop = coinBodies[id].timeUntilNextHop ]_vars

\* a body stunned in the middle of a hop: faster than STUN_VELOCITY, force
\* frames left, no force applied
C20_Witness ==
    \E id \in CoinIds :
        /\ coinBodies[id].isStunned
        /\ FasterThan(coinBodies[id].engineVelocity, STUN_VELOCITY)
        /\ FasterThan(coinBodies[id].velocity, STUN_VELOCITY)
        /\ coinBodies[id].hopFrameCount > 0
        /\ coinBodies[id].hopFrameCount < hop_frames
        /\ ~coinBodies[id].isHopping
        /\ coinBodies[id].force = <<0, 0>>

\* the countdown has run out: cb.timeUntilNextHop <= 0 (false of a NaN)
RunOut(timer) == timer # NaN /\ timer <= 0

\* C21 as stated: a stunned body stays stunned, with no hop force applied, in
\* every update where its speed is at or above RECOVERY_VELOCITY; in the first
\* update where its speed is below it, it leaves Stunned and is Idle (neither
\* stunned nor hopping).
C21_StunnedUntilSlowThenIdle ==
    [][ frameNo' = frameNo + 1 =>
          \A id \in CoinIds :
              coinBodies[id].isStunned =>
                  IF SlowerThan(coinBodies'[id].engineVelocity, RECOVERY_VELOCITY)
                  THEN /\ ~coinBodies'[id].isStunned
                       /\ ~coinBodies'[id].isHopping
                  ELSE /\ coinBodies'[id].isStunned
                       /\ ~coinBodies'[id].isHopping
                       /\ coinBodies'[id].force = <<0, 0>> ]_vars

\* C21 amended: the same while the speed is at or above RECOVERY_VELOCITY; in
\* the first update where it is below, the body leaves Stunned and the idle
\* logic of that update runs: the countdown is decremented by dt and the body
\* ends the update idle, or hopping when the decremented countdown is <= 0.
C21_StunnedUntilSlowThenIdleLogic ==
    [][ frameNo' = frameNo + 1 =>
          \A id \in CoinIds :
              coinBodies[id].isStunned =>
                  IF SlowerThan(coinBodies'[id].engineVelocity, RECOVERY_VELOCITY)
                  THEN /\ ~coinBodies'[id].isStunned
                       /\ coinBodies'[id].timeUntilNextHop =
                             CountDown(coinBodies[id].timeUntilNextHop, dtMs)
                       /\ coinBodies'[id].isHopping <=>
                             RunOut(CountDown(coinBodies[id].timeUntilNextHop, dtMs))
                       /\ coinBodies'[id].force = <<0, 0>>
                  ELSE /\ coinBodies'[id].isStunned
                       /\ ~coinBodies'[id].isHopping
                       /\ coinBodies'[id].force = <<0, 0>>
                       /\ coinBodies'[id].timeUntilNextHop =
                             coinBodies[id].timeUntilNextHop ]_vars

\* a body whose timer of 40 ms was counted down in the first update, held
\* while it was stunned in the second, and counted down again in the third,
\* where the body came to rest, recovered, and started a hop
C21_Witness ==
    /\ frameNo = 3
    /\ \E id \in CoinIds :
          /\ ~coinBodies[id].isStunned
          /\ SlowerThan(coinBodies[id].engineVelocity, RECOVERY_VELOCITY)
          /\ coinBodies[id].timeUntilNextHop = 40 * 1000 - 2 * dtMs
          /\ coinBodies[id].isHopping
          /\ coinBodies[id].hopFrameCount = hop_frames

----------------------------------------------------------------------------
(* MetricEngine: calculateWindowMetrics and computeMetricSeries, metrics.ts *)

(* Bounds of the model *)
MaxPrices == 4                  \* samples in a raw series
MaxWindow == 3                  \* config.windowHours explored: 1 .. MaxWindow

\* Prices are powers of two, so that Math.log is exact in units of ln 2.
PriceValues == {1, 2, 4, 8}

\* Math.log(p) in units of ln 2, p a power of two
RECURSIVE Log2(_)
Log2(p) == IF p <= 1 THEN 0 ELSE 1 + Log2(p \div 2)

MathLog(p) == ToRat(Log2(p))

RECURSIVE RatSum(_)
RatSum(seq) ==
    IF seq = <<>> THEN RatZero ELSE RatAdd(seq[1], RatSum(Tail(seq)))

\* values.slice(-windowSize), for 1 <= windowSize
LastN(values, n) ==
    IF n >= Len(values) THEN values
    ELSE SubSeq(values, Len(values) - n + 1, Len(values))

\* a slope taken from the window's end points, divided by the point count
OlsSlopeEndpoints(logPrices) ==
    RatDiv(RatSub(logPrices[Len(logPrices)], logPrices[1]), ToRat(Len(logPrices)))

\* slope = (n*sum(xy) - sum(x)*sum(y)) / (n*sum(x^2) - (sum(x))^2), x = 0 .. n-1
OlsSlope(logPrices) ==
    LET n == Len(logPrices)
        sumX == ToRat(RatSum([i \in 1..n |-> ToRat(i - 1)])[1])
        sumY == RatSum(logPrices)
        sumXY == RatSum([i \in 1..n |-> RatMul(ToRat(i - 1), logPrices[i])])
        sumX2 == RatSum([i \in 1..n |-> ToRat((i - 1) * (i - 1))])
    IN  RatDiv(RatSub(RatMul(ToRat(n), sumXY), RatMul(sumX, sumY)),
               RatSub(RatMul(ToRat(n), sumX2), RatMul(sumX, sumX)))

\* returns r_i = log(p_i) - log(p_{i-1})
LogReturns(logPrices) ==
    [i \in 1..(Len(logPrices) - 1) |-> RatSub(logPrices[i + 1], logPrices[i])]

\* the deviation with the plain denominator returns.length - 1
ReturnStddevNoFallback(returns) ==
    LET meanReturn == RatDiv(RatSum(returns), ToRat(Len(returns)))
        sumSqDiff == RatSum([i \in 1..Len(returns) |->
                        RatMul(RatSub(returns[i], meanReturn),
                               RatSub(returns[i], meanReturn))])
    IN  RatSqrt(RatDiv(sumSqDiff, ToRat(Len(returns) - 1)))

\* Math.sqrt(sumSqDiff / (returns.length - 1 || 1))
ReturnStddev(returns) ==
    LET meanReturn == RatDiv(RatSum(returns), ToRat(Len(returns)))
        sumSqDiff == RatSum([i \in 1..Len(returns) |->
                        RatMul(RatSub(returns[i], meanReturn),
                               RatSub(returns[i], meanReturn))])
        denom == IF Len(returns) - 1 = 0 THEN 1 ELSE Len(returns) - 1
    IN  RatSqrt(RatDiv(sumSqDiff, ToRat(denom)))

calculateWindowMetrics(values, windowSize) ==
    IF Len(values) < windowSize
    THEN [trend |-> RatZero, volatility |-> RatZero]
    ELSE LET windowValues == LastN(values, windowSize)
             logPrices == [i \in 1..Len(windowValues) |-> MathLog(windowValues[i])]
         IN  [trend |-> OlsSlope(logPrices),
              volatility |-> ReturnStddev(LogReturns(logPrices))]

\* data.prices is a sequence of <<timestamp, price>>; index i here is i - 1 there
computeMetricSeries(data, window) ==
    [i \in 1..Len(data) |->
        LET startIdx == Max2(0, (i - 1) - window + 1)
            windowSlice == [j \in 1..(i - startIdx) |-> data[startIdx + j][2]]
            m == calculateWindowMetrics(windowSlice, window)
        IN  [timestamp |-> data[i][1], trend |-> m.trend,
             volatility |-> m.volatility, price |-> data[i][2]]]

\* raw series of n hourly samples: timestamps 0, 1, ... (hours), prices from the grid
RawSeriesOfLen(n) ==
    {[i \in 1..n |-> <<i - 1, f[i]>>] : f \in [1..n -> PriceValues]}

RawSeries == UNION {RawSeriesOfLen(n) : n \in 1..MaxPrices}

PhysicsIdle == coinBodies = <<>> /\ frameNo = 0

InitMetrics ==
    /\ CacheIdle
    /\ PipelineIdle
    /\ PhysicsIdle
    /\ NormalizerIdle
    /\ SamplerIdle
    /\ MainIdle
    /\ prices \in RawSeries
    /\ windowHours \in 1..MaxWindow
    /\ metricSeries = <<>>

\* const series = computeMetricSeries(data, config.windowHours)
Compute ==
    /\ metricSeries = <<>>
    /\ metricSeries' = computeMetricSeries(prices, windowHours)
    /\ UNCHANGED <<cacheVars, pipeVars, prices, windowHours, physVars, normVars, samplerVars, mainVars>>

NextMetrics == Compute

SpecMetrics == InitMetrics /\ [][NextMetrics]_vars

(* Claims about computeMetricSeries, checked under SpecMetrics *)

ConstantPrice == \A i, j \in 1..Len(prices) : prices[i][2] = prices[j][2]

\* the price is multiplied by q from each sample to the next (two samples at least)
ConstantRatio(q) ==
    /\ Len(prices) >= 2
    /\ \A i \in 1..(Len(prices) - 1) : prices[i + 1][2] = q * prices[i][2]

\* C9: a constant price yields trend = 0 and volatility = 0 at every sample,
\* for every window size.
C9_ConstantPriceZeroMetrics ==
    (metricSeries # <<>> /\ ConstantPrice) =>
        \A i \in 1..Len(metricSeries) :
            /\ RatEq(metricSeries[i].trend, RatZero)
            /\ RatEq(metricSeries[i].volatility, RatZero)

\* C10 as stated: a price growing by the constant ratio q > 1 yields trend
\* ln q at every index i >= W - 1, for every window size W.
C10_ConstantRatioTrend ==
    \A q \in {2, 4, 8} :
        (metricSeries # <<>> /\ ConstantRatio(q)) =>
            \A i \in windowHours..Len(metricSeries) :
                RatEq(metricSeries[i].trend, MathLog(q))

\* C10 amended: the same, for window sizes W >= 2.
C10_ConstantRatioTrendFromTwo ==
    \A q \in {2, 4, 8} :
        (metricSeries # <<>> /\ ConstantRatio(q) /\ windowHours >= 2) =>
            \A i \in windowHours..Len(metricSeries) :
                /\ RatEq(metricSeries[i].trend, MathLog(q))
                /\ RatLt(RatZero, metricSeries[i].trend)

\* a doubling series whose window of 3 is full at two samples
C10_Witness ==
    /\ metricSeries # <<>>
    /\ ConstantRatio(2)
    /\ windowHours = 3
    /\ Len(metricSeries) = 4

\* C11: with window size 2, every index i >= 1 has trend
\* ln(price[i]) - ln(price[i-1]) and volatility 0.
C11_WindowTwoSingleReturn ==
    (metricSeries # <<>> /\ windowHours = 2) =>
        \A i \in 2..Len(metricSeries) :
            /\ RatEq(metricSeries[i].trend,
                     RatSub(MathLog(prices[i][2]), MathLog(prices[i - 1][2])))
            /\ RatEq(metricSeries[i].volatility, RatZero)

\* three prices growing by one ratio under window size 2: the third sample
\* carries the ratio's logarithm and volatility 0
C11_Witness ==
    /\ metricSeries # <<>>
    /\ windowHours = 2
    /\ Len(prices) = 3
    /\ ConstantRatio(2)
    /\ RatEq(metricSeries[3].trend, MathLog(2))
    /\ RatEq(metricSeries[3].volatility, RatZero)

\* the prices of samples 0 .. i of the raw series (i counted from 1 here)
PricesUpTo(i) == [j \in 1..i |-> prices[j][2]]

\* C18: at every index with fewer than W samples of history the trend and the
\* volatility are computed over the shorter window of samples 0 .. i by the
\* formulas of a full window (0 and 0 for the one-point window of index 0),
\* not set to a placeholder.
C18_RampUpUsesShorterWindow ==
    metricSeries # <<>> =>
        \A i \in 1..Len(metricSeries) :
            i < windowHours =>
                IF i = 1
                THEN /\ metricSeries[i].trend = RatZero
                     /\ metricSeries[i].volatility = RatZero
                ELSE /\ metricSeries[i].trend =
                            calculateWindowMetrics(PricesUpTo(i), i).trend
                     /\ metricSeries[i].volatility =
                            calculateWindowMetrics(PricesUpTo(i), i).volatility

\* C19: whenever the window of a sample holds fewer than 2 points (window
\* size 1, or index 0) the trend is exactly 0 and the volatility exactly 0,
\* neither NaN.
C19_ShortWindowGivesZero ==
    metricSeries # <<>> =>
        \A i \in 1..Len(metricSeries) :
            (windowHours = 1 \/ i = 1) =>
                /\ metricSeries[i].trend = RatZero
                /\ metricSeries[i].volatility = RatZero

----------------------------------------------------------------------------
(* Normalizer: normalizeAllSeries, metrics.ts *)

(* Bounds of the model *)
MaxSamples == 2                 \* samples per entity handed to the normalizer

EntityIds == {"bitcoin", "ethereum"}

\* raw (trend, volatility) of one sample: finite trend, volatility >= 0
RawMetricValues ==
    { [trend |-> ToRat(-2), volatility |-> ToRat(0)],
      [trend |-> ToRat(0), volatility |-> ToRat(0)],
      [trend |-> ToRat(0), volatility |-> ToRat(2)],
      [trend |-> ToRat(3), volatility |-> ToRat(1)] }

RECURSIVE Flatten(_, _)
\* the values of field `trend` (which = 1) or `volatility` (which = 2) of every
\* sample of every series of the map, in one sequence
Flatten(all, which) ==
    IF DOMAIN all = {} THEN <<>>
    ELSE LET id == CHOOSE x \in DOMAIN all : TRUE
             rest == [x \in (DOMAIN all) \ {id} |-> all[x]]
             own == [i \in 1..Len(all[id]) |->
                        IF which = 1 THEN all[id][i].trend ELSE all[id][i].volatility]
         IN  own \o Flatten(rest, which)

RECURSIVE InsertSorted(_, _)
InsertSorted(x, sorted) ==
    IF sorted = <<>> THEN <<x>>
    ELSE IF RatLe(x, sorted[1]) THEN <<x>> \o sorted
    ELSE <<sorted[1]>> \o InsertSorted(x, Tail(sorted))

RECURSIVE SortAscending(_)
\* [...arr].sort((a, b) => a - b)
SortAscending(arr) ==
    IF arr = <<>> THEN <<>> ELSE InsertSorted(arr[1], SortAscending(Tail(arr)))

\* getPercentile(arr, q) for q = qNum / 100, arr not empty
getPercentile(arr, qNum) ==
    LET sorted == SortAscending(arr)
        posNum == (Len(sorted) - 1) * qNum         \* pos = posNum / 100
        base == posNum \div 100                     \* Math.floor(pos), 0-based
        rest == Rat(posNum % 100, 100)
    IN  IF base + 2 <= Len(sorted)                  \* sorted[base + 1] !== undefined
        THEN RatAdd(sorted[base + 1],
                    RatMul(rest, RatSub(sorted[base + 2], sorted[base + 1])))
        ELSE sorted[base + 1]

\* the trend rescaling without the clamp to [tMin, tMax]
NormalizeTrendNoClamp(t, tMin, tMax) ==
    IF RatEq(tMin, tMax) THEN RatZero
    ELSE RatSub(RatMul(RatDiv(RatSub(t, tMin), RatSub(tMax, tMin)), ToRat(2)), ToRat(1))

\* the trend rescaling without the test tMin === tMax
NormalizeTrendNoGuard(t, tMin, tMax) ==
    LET t1 == IF RatLt(t, tMin) THEN tMin ELSE t
        t2 == IF RatLt(tMax, t1) THEN tMax ELSE t1
    IN  RatSub(RatMul(RatDiv(RatSub(t2, tMin), RatSub(tMax, tMin)), ToRat(2)),
               ToRat(1))

\* a rescaling of [tMin, tMax] to [-1, 1] that maps tMin to 1 and tMax to -1
NormalizeTrendReversed(t, tMin, tMax) ==
    LET t1 == IF RatLt(t, tMin) THEN tMin ELSE t
        t2 == IF RatLt(tMax, t1) THEN tMax ELSE t1
    IN  IF RatEq(tMin, tMax) THEN RatZero
        ELSE RatSub(ToRat(1),
                    RatMul(RatDiv(RatSub(t2, tMin), RatSub(tMax, tMin)), ToRat(2)))

\* s.trend = tMin === tMax ? 0 : ((t - tMin) / (tMax - tMin)) * 2 - 1, t clamped
NormalizeTrend(t, tMin, tMax) ==
    LET t1 == IF RatLt(t, tMin) THEN tMin ELSE t
        t2 == IF RatLt(tMax, t1) THEN tMax ELSE t1
    IN  IF RatEq(tMin, tMax) THEN RatZero
        ELSE RatSub(RatMul(RatDiv(RatSub(t2, tMin), RatSub(tMax, tMin)), ToRat(2)),
                    ToRat(1))

\* the volatility mapped from the top of the range downwards: 1 - v / vMax
NormalizeVolatilityFromTop(v, vMax) ==
    LET vMin == RatZero
        v1 == IF RatLt(v, vMin) THEN vMin ELSE v
        v2 == IF RatLt(vMax, v1) THEN vMax ELSE v1
    IN  IF RatEq(vMax, RatZero) THEN RatZero ELSE RatSub(ToRat(1), RatDiv(v2, vMax))

\* s.volatility = vMax === 0 ? 0 : (v / vMax), v clamped to [vMin, vMax], vMin = 0
NormalizeVolatility(v, vMax) ==
    LET vMin == RatZero
        v1 == IF RatLt(v, vMin) THEN vMin ELSE v
        v2 == IF RatLt(vMax, v1) THEN vMax ELSE v1
    IN  IF RatEq(vMax, RatZero) THEN RatZero ELSE RatDiv(v2, vMax)

\* the map after normalizeAllSeries(coinMetrics) has mutated it in place
normalizeAllSeries(all) ==
    LET allTrends == Flatten(all, 1)
        allVols == Flatten(all, 2)
        tMin == getPercentile(allTrends, 5)
        tMax == getPercentile(allTrends, 95)
        vMax == getPercentile(allVols, 95)
    IN  IF Len(allTrends) = 0 THEN all
        ELSE [id \in DOMAIN all |->
                [i \in 1..Len(all[id]) |->
                    [all[id][i] EXCEPT
                        !.trend = NormalizeTrend(all[id][i].trend, tMin, tMax),
                        !.volatility = NormalizeVolatility(all[id][i].volatility, vMax)]]]

\* derived series of n samples with raw values from the grid
DerivedSeriesOfLen(n) ==
    {[i \in 1..n |-> [timestamp |-> i - 1, trend |-> f[i].trend,
                      volatility |-> f[i].volatility, price |-> 1]] :
        f \in [1..n -> RawMetricValues]}

DerivedSeries == UNION {DerivedSeriesOfLen(n) : n \in 0..MaxSamples}

InitNormalizer ==
    /\ CacheIdle
    /\ PipelineIdle
    /\ PhysicsIdle
    /\ MetricsIdle
    /\ SamplerIdle
    /\ MainIdle
    /\ coinMetrics \in [EntityIds -> DerivedSeries]
    /\ normalizeCalls = 0
    /\ timesNormalized = [id \in EntityIds |-> 0]

\* normalizeAllSeries(coinMetrics), called once by main
Normalize ==
    /\ normalizeCalls = 0
    /\ coinMetrics' = normalizeAllSeries(coinMetrics)
    /\ normalizeCalls' = normalizeCalls + 1
    /\ timesNormalized' = [id \in DOMAIN coinMetrics |-> timesNormalized[id] + 1]
    /\ UNCHANGED <<cacheVars, pipeVars, physVars, metricVars, samplerVars, mainVars>>

NextNormalizer == Normalize

SpecNormalizer == InitNormalizer /\ [][NextNormalizer]_vars

(* Claims about normalizeAllSeries, checked under SpecNormalizer *)

\* C5: after normalizeAllSeries every trend lies in [-1, 1] and every
\* volatility in [0, 1].
C5_NormalizedRanges ==
    normalizeCalls > 0 =>
        \A id \in DOMAIN coinMetrics :
            \A i \in 1..Len(coinMetrics[id]) :
                /\ RatLe(ToRat(-1), coinMetrics[id][i].trend)
                /\ RatLe(coinMetrics[id][i].trend, ToRat(1))
                /\ RatLe(RatZero, coinMetrics[id][i].volatility)
                /\ RatLe(coinMetrics[id][i].volatility, ToRat(1))

\* a normalized map that holds a trend at each end of the range and one
\* strictly inside it, and a volatility strictly between 0 and 1
C5_Witness ==
    /\ normalizeCalls > 0
    /\ \E id \in DOMAIN coinMetrics : \E i \in 1..Len(coinMetrics[id]) :
          coinMetrics[id][i].trend = ToRat(-1)
    /\ \E id \in DOMAIN coinMetrics : \E i \in 1..Len(coinMetrics[id]) :
          coinMetrics[id][i].trend = ToRat(1)
    /\ \E id \in DOMAIN coinMetrics : \E i \in 1..Len(coinMetrics[id]) :
          /\ RatLt(ToRat(-1), coinMetrics[id][i].trend)
          /\ RatLt(coinMetrics[id][i].trend, ToRat(1))
    /\ \E id \in DOMAIN coinMetrics : \E i \in 1..Len(coinMetrics[id]) :
          /\ RatLt(RatZero, coinMetrics[id][i].volatility)
          /\ RatLt(coinMetrics[id][i].volatility, ToRat(1))

\* C13: when the 5th and 95th percentiles of the trends coincide (all raw
\* trends equal), normalizeAllSeries sets every trend to exactly 0, and when
\* the 95th percentile of the volatilities is 0 it sets every volatility to
\* exactly 0; neither is the result of a division by zero.
C13_DegenerateRangesGiveZero ==
    [][ (normalizeCalls' = normalizeCalls + 1 /\ Len(Flatten(coinMetrics, 1)) > 0) =>
          /\ RatEq(getPercentile(Flatten(coinMetrics, 1), 5),
                   getPercentile(Flatten(coinMetrics, 1), 95)) =>
                \A id \in DOMAIN coinMetrics' : \A i \in 1..Len(coinMetrics'[id]) :
                    coinMetrics'[id][i].trend = RatZero
          /\ RatEq(getPercentile(Flatten(coinMetrics, 2), 95), RatZero) =>
                \A id \in DOMAIN coinMetrics' : \A i \in 1..Len(coinMetrics'[id]) :
                    coinMetrics'[id][i].volatility = RatZero ]_vars

\* two entities of two samples each, normalized: every trend is 0, which
\* happens only when the percentiles coincide, while the volatilities differ
C13_Witness ==
    /\ normalizeCalls > 0
    /\ \A id \in EntityIds :
          /\ Len(coinMetrics[id]) = 2
          /\ \A i \in 1..2 : coinMetrics[id][i].trend = RatZero
    /\ \E id \in EntityIds : coinMetrics[id][1].volatility = ToRat(1)
    /\ \E id \in EntityIds : coinMetrics[id][1].volatility = RatZero

----------------------------------------------------------------------------
(* TemporalSampler: getMetricsAt, index.ts *)

(* Bounds of the model *)
MaxSeriesLen == 3               \* samples in a series that is queried
MaxTime == 3                    \* timestamps 1 .. MaxTime (hours)

\* normalized (trend, volatility) of one sample
SampleValues ==
    { [trend |-> ToRat(-1), volatility |-> ToRat(1)],
      [trend |-> ToRat(0), volatility |-> ToRat(0)],
      [trend |-> Rat(1, 2), volatility |-> Rat(1, 4)] }

\* the result of one query
Sampled(trend, vol) == [trend |-> trend, vol |-> vol]

\* the branch with the ratio measured from the later sample
InterpolateFromEnd(a, b, time) ==
    LET t0 == ToRat(a.timestamp)
        t1 == ToRat(b.timestamp)
        ratio == RatDiv(RatSub(t1, time), RatSub(t1, t0))
    IN  Sampled(RatAdd(a.trend, RatMul(RatSub(b.trend, a.trend), ratio)),
                RatAdd(a.volatility, RatMul(RatSub(b.volatility, a.volatility), ratio)))

\* the branch of the loop for the pair (a, b) of neighbours that brackets time
Interpolate(a, b, time) ==
    LET t0 == ToRat(a.timestamp)
        t1 == ToRat(b.timestamp)
        ratio == RatDiv(RatSub(time, t0), RatSub(t1, t0))
    IN  Sampled(RatAdd(a.trend, RatMul(RatSub(b.trend, a.trend), ratio)),
                RatAdd(a.volatility, RatMul(RatSub(b.volatility, a.volatility), ratio)))

\* out-of-range handling that answers with the first sample on both sides
ClampToFirst(series, time) ==
    IF RatLt(time, ToRat(series[1].timestamp))
         \/ RatLt(ToRat(series[Len(series)].timestamp), time)
    THEN Sampled(series[1].trend, series[1].volatility)
    ELSE Sampled(RatZero, RatZero)

\* after the loop: clamp to the first or last sample, else { trend: 0, vol: 0 }
ClampToEnds(series, time) ==
    IF RatLt(time, ToRat(series[1].timestamp))
    THEN Sampled(series[1].trend, series[1].volatility)
    ELSE IF RatLt(ToRat(series[Len(series)].timestamp), time)
    THEN Sampled(series[Len(series)].trend, series[Len(series)].volatility)
    ELSE Sampled(RatZero, RatZero)

\* getMetricsAt(coinId, time) over the map `all`; a series in the map is not
\* empty (main stores none, and series[0].timestamp of an empty one throws)
getMetricsAt(all, coinId, time) ==
    IF coinId \notin DOMAIN all THEN Sampled(RatZero, RatZero)
    ELSE LET series == all[coinId]
             hits == {i \in 1..(Len(series) - 1) :
                        /\ RatLe(ToRat(series[i].timestamp), time)
                        /\ RatLe(time, ToRat(series[i + 1].timestamp))}
             first == CHOOSE i \in hits : \A j \in hits : i <= j
         IN  IF hits # {} THEN Interpolate(series[first], series[first + 1], time)
             ELSE ClampToEnds(series, time)

\* series of n samples sorted by timestamp (equal neighbours allowed)
SortedSeriesOfLen(n) ==
    {[i \in 1..n |-> [timestamp |-> ts[i], trend |-> f[i].trend,
                      volatility |-> f[i].volatility, price |-> 1]] :
        ts \in {t \in [1..n -> 1..MaxTime] : \A i \in 1..(n - 1) : t[i] <= t[i + 1]},
        f \in [1..n -> SampleValues]}

SortedSeries == UNION {SortedSeriesOfLen(n) : n \in 1..MaxSeriesLen}

\* query times: every half hour from 0 to MaxTime + 1
QueryTimes == {Rat(k, 2) : k \in 0..(2 * (MaxTime + 1))}

InitSampler ==
    /\ CacheIdle
    /\ PipelineIdle
    /\ PhysicsIdle
    /\ MetricsIdle
    /\ MainIdle
    /\ coinMetrics \in [{"bitcoin"} -> SortedSeries]
    /\ normalizeCalls = 0
    /\ timesNormalized = [id \in {"bitcoin"} |-> 0]
    /\ currentDataTime = RatZero
    /\ currentMetrics = <<>>

\* currentMetrics.set(id, getMetricsAt(id, currentDataTime)) for every id
Sample ==
    /\ \E time \in QueryTimes :
          /\ currentDataTime' = time
          /\ currentMetrics' = [id \in DOMAIN coinMetrics |->
                                  getMetricsAt(coinMetrics, id, time)]
    /\ UNCHANGED <<cacheVars, pipeVars, physVars, metricVars, normVars, mainVars>>

NextSampler == Sample

SpecSampler == InitSampler /\ [][NextSampler]_vars

(* Claims about getMetricsAt, checked under SpecSampler *)

StrictlyIncreasing(series) ==
    \A i \in 1..(Len(series) - 1) : series[i].timestamp < series[i + 1].timestamp

\* C7: a query at exactly a sample's timestamp returns exactly that sample's
\* trend and volatility (stated for series whose timestamps are distinct, where
\* "the sample at t" is one sample).
C7_ExactAtSampleTimes ==
    \A id \in DOMAIN currentMetrics :
        StrictlyIncreasing(coinMetrics[id]) =>
            \A k \in 1..Len(coinMetrics[id]) :
                ToRat(coinMetrics[id][k].timestamp) = currentDataTime =>
                    /\ currentMetrics[id].trend = coinMetrics[id][k].trend
                    /\ currentMetrics[id].vol = coinMetrics[id][k].volatility

\* C8: a query before the first timestamp returns the first sample's values,
\* a query after the last timestamp the last sample's values.
C8_ClampedOutsideRange ==
    \A id \in DOMAIN currentMetrics :
        LET series == coinMetrics[id]
            last == series[Len(series)]
        IN  /\ RatLt(currentDataTime, ToRat(series[1].timestamp)) =>
                 /\ currentMetrics[id].trend = series[1].trend
                 /\ currentMetrics[id].vol = series[1].volatility
            /\ RatLt(ToRat(last.timestamp), currentDataTime) =>
                 /\ currentMetrics[id].trend = last.trend
                 /\ currentMetrics[id].vol = last.volatility

\* a query after the end of a series whose last sample differs from its first
C8_Witness ==
    \E id \in DOMAIN currentMetrics :
        LET series == coinMetrics[id]
            last == series[Len(series)]
        IN  /\ Len(series) >= 2
            /\ RatLt(ToRat(last.timestamp), currentDataTime)
            /\ last.trend # series[1].trend
            /\ currentMetrics[id].trend = last.trend
            /\ currentMetrics[id].vol = last.volatility

\* C15: a query never returns a division-by-zero result (NaN), in particular
\* not when the two samples that bracket the query time have one timestamp.
C15_ZeroTimeDeltaHasFallback ==
    \A id \in DOMAIN currentMetrics :
        /\ ~IsRatNaN(currentMetrics[id].trend)
        /\ ~IsRatNaN(currentMetrics[id].vol)

----------------------------------------------------------------------------
(* main, index.ts: fetch, derive, normalize, then the frame loop *)

(* Bounds of the model *)
TotalFrames == 2                \* config.durationSec * config.fps

\* what fetchTopCoins can return: the ids of the coins, in rank order
CoinLists == {<<>>, <<"bitcoin">>, <<"bitcoin", "ethereum">>}

\* what fetchMarketChart can return as data.prices: <<timestamp, price>> pairs
Charts ==
    { <<>>,
      << <<0, 2>> >>,
      << <<0, 1>>, <<1, 2>>, <<2, 4>> >>,
      << <<0, 1>>, <<1, 2>>, <<2, 8>> >>,
      << <<0, 4>>, <<1, 4>>, <<2, 4>> >>,
      << <<0, 4>>, <<1, 4>>, <<2, 1>> >> }

\* the engine's results explored along main's frame loop
MainEngineOutcomes ==
    { [position |-> <<54000, 88000>>, velocity |-> <<0, 0>>],
      [position |-> <<10200, 88000>>, velocity |-> <<-960, 1280>>] }

\* a number of the exact arithmetic as a milli fixed-point number
ToMilli(a) == IF IsRatNaN(a) THEN NaN ELSE Div(a[1] * 1000, a[2])

\* coinMetrics.set(id, series)
MapSet(map, id, value) ==
    [x \in (DOMAIN map) \cup {id} |-> IF x = id THEN value ELSE map[x]]

\* series.map(s => s.timestamp)
Timestamps(series) == [i \in 1..Len(series) |-> series[i].timestamp]

\* coins.map(c => c.id).filter(id => coinMetrics.has(id))
ValidCoinIds == SelectSeq(coins, LAMBDA id : id \in DOMAIN coinMetrics)

SeqRange(seq) == {seq[i] : i \in 1..Len(seq)}

\* startDate.getTime() + (f / totalFrames) * totalTimeMs
CurrentDataTime(f) ==
    LET start == referenceTimestamps[1]
        end == referenceTimestamps[Len(referenceTimestamps)]
    IN  RatAdd(ToRat(start), RatMul(Rat(f, TotalFrames), ToRat(end - start)))

InitMain ==
    /\ CacheIdle
    /\ PipelineIdle
    /\ PhysicsIdle
    /\ NormalizerIdle
    /\ SamplerIdle
    /\ prices = <<>>
    /\ metricSeries = <<>>
    /\ windowHours \in 1..MaxWindow
    /\ pc = "start"
    /\ coins = <<>>
    /\ coinIdx = 0
    /\ referenceTimestamps = <<>>
    /\ validCoinIds = <<>>

\* const coins = await fetchTopCoins(); if (coins.length === 0) return;
FetchTopCoins ==
    /\ pc = "start"
    /\ \E list \in CoinLists :
          /\ coins' = list
          /\ pc' = IF Len(list) = 0 THEN "returned" ELSE "fetch"
    /\ coinIdx' = 1
    /\ UNCHANGED <<cacheVars, pipeVars, physVars, metricVars, normVars, samplerVars,
                   referenceTimestamps, validCoinIds>>

\* fetchTopCoins rejects: main().catch logs and calls process.exit(1)
FetchTopCoinsFails ==
    /\ pc = "start"
    /\ pc' = "exit1"
    /\ UNCHANGED <<cacheVars, pipeVars, physVars, metricVars, normVars, samplerVars,
                   coins, coinIdx, referenceTimestamps, validCoinIds>>

\* one pass of the loop body: fetchMarketChart resolves with data
FetchMarketChart ==
    /\ pc = "fetch"
    /\ coinIdx <= Len(coins)
    /\ \E data \in Charts :
          LET id == coins[coinIdx]
              series == computeMetricSeries(data, windowHours)
          IN  /\ prices' = data
              /\ IF Len(data) = 0
                 THEN UNCHANGED <<metricSeries, coinMetrics, timesNormalized,
                                  referenceTimestamps>>
                 ELSE /\ metricSeries' = series
                      /\ coinMetrics' = MapSet(coinMetrics, id, series)
                      /\ timesNormalized' = MapSet(timesNormalized, id, 0)
                      /\ referenceTimestamps' =
                            IF Len(referenceTimestamps) = 0 /\ Len(series) > 0
                            THEN Timestamps(series) ELSE referenceTimestamps
    /\ coinIdx' = coinIdx + 1
    /\ UNCHANGED <<cacheVars, pipeVars, physVars, windowHours, normalizeCalls, samplerVars,
                   pc, coins, validCoinIds>>

\* one pass of the loop body: fetchMarketChart rejects, the catch logs it
FetchMarketChartFails ==
    /\ pc = "fetch"
    /\ coinIdx <= Len(coins)
    /\ coinIdx' = coinIdx + 1
    /\ UNCHANGED <<cacheVars, pipeVars, physVars, metricVars, normVars, samplerVars,
                   pc, coins, referenceTimestamps, validCoinIds>>

\* after the loop: if (referenceTimestamps.length === 0) return;
EndOfCoins ==
    /\ pc = "fetch"
    /\ coinIdx > Len(coins)
    /\ pc' = IF Len(referenceTimestamps) = 0 THEN "returned" ELSE "normalize"
    /\ UNCHANGED <<cacheVars, pipeVars, physVars, metricVars, normVars, samplerVars,
                   coins, coinIdx, referenceTimestamps, validCoinIds>>

\* main going on to the world setup without the call of normalizeAllSeries
MainSkipsNormalize ==
    /\ pc = "normalize"
    /\ pc' = "setup"
    /\ UNCHANGED <<cacheVars, pipeVars, physVars, metricVars, normVars, samplerVars,
                   coins, coinIdx, referenceTimestamps, validCoinIds>>

\* normalizeAllSeries(coinMetrics);
MainNormalize ==
    /\ pc = "normalize"
    /\ coinMetrics' = normalizeAllSeries(coinMetrics)
    /\ normalizeCalls' = normalizeCalls + 1
    /\ timesNormalized' = [id \in DOMAIN coinMetrics |-> timesNormalized[id] + 1]
    /\ pc' = "setup"
    /\ UNCHANGED <<cacheVars, pipeVars, physVars, metricVars, samplerVars,
                   coins, coinIdx, referenceTimestamps, validCoinIds>>

\* new PhysicsWorld(); world.setupCoins(validCoinIds);
SetupWorld ==
    /\ pc = "setup"
    /\ validCoinIds' = ValidCoinIds
    /\ coinBodies' \in [SeqRange(ValidCoinIds) ->
                          {NewCoinBody(p, t) : p \in SpawnPositions, t \in InitialTimers}]
    /\ frameNo' = 0
    /\ pc' = "frames"
    /\ UNCHANGED <<cacheVars, pipeVars, metricVars, normVars, samplerVars,
                   coins, coinIdx, referenceTimestamps>>

\* one pass of the frame loop: sample every valid coin, then world.update
Frame ==
    /\ pc = "frames"
    /\ frameNo < TotalFrames
    /\ currentDataTime' = CurrentDataTime(frameNo)
    /\ currentMetrics' = [id \in SeqRange(validCoinIds) |->
                            getMetricsAt(coinMetrics, id, CurrentDataTime(frameNo))]
    /\ UpdateWorld([id \in SeqRange(validCoinIds) |->
                      LET m == getMetricsAt(coinMetrics, id, CurrentDataTime(frameNo))
                      IN  [trend |-> ToMilli(m.trend), vol |-> ToMilli(m.vol)]],
                   MainEngineOutcomes)
    /\ frameNo' = frameNo + 1
    /\ UNCHANGED <<cacheVars, pipeVars, metricVars, normVars, mainVars>>

\* after the last frame: await videoEncoder.finish()
Finish ==
    /\ pc = "frames"
    /\ frameNo = TotalFrames
    /\ pc' = "done"
    /\ UNCHANGED <<cacheVars, pipeVars, physVars, metricVars, normVars, samplerVars,
                   coins, coinIdx, referenceTimestamps, validCoinIds>>

NextMain ==
    \/ FetchTopCoins
    \/ FetchTopCoinsFails
    \/ FetchMarketChart
    \/ FetchMarketChartFails
    \/ EndOfCoins
    \/ MainNormalize
    \/ SetupWorld
    \/ Frame
    \/ Finish

SpecMain == InitMain /\ [][NextMain]_vars

(* Claims about main, checked under SpecMain *)

\* C6: normalizeAllSeries runs once per generation run, after the series of
\* every coin are stored and before the first getMetricsAt query: it is never
\* called twice, it is called only when the fetch loop is over, every series
\* that is sampled has been normalized exactly once, and a run that reaches
\* its end has called it once.
C6_NormalizedOnceBeforeSampling ==
    /\ normalizeCalls <= 1
    /\ normalizeCalls > 0 => (pc # "fetch" /\ coinIdx > Len(coins))
    /\ \A id \in DOMAIN currentMetrics :
          /\ id \in DOMAIN coinMetrics
          /\ timesNormalized[id] = 1
          /\ normalizeCalls = 1
    /\ pc \in {"setup", "frames", "done"} =>
          /\ normalizeCalls = 1
          /\ \A id \in DOMAIN coinMetrics : timesNormalized[id] = 1

\* a finished run of two coins, both sampled in the last frame
C6_Witness ==
    /\ pc = "done"
    /\ DOMAIN currentMetrics = {"bitcoin", "ethereum"}
    /\ frameNo = TotalFrames

\* an entity whose price is the same at every sample
FlatEntity(id) ==
    /\ Len(coinMetrics[id]) >= 1
    /\ \A i, j \in 1..Len(coinMetrics[id]) :
          coinMetrics[id][i].price = coinMetrics[id][j].price

\* an entity whose price rises from every sample to the next
RisingEntity(id) ==
    /\ Len(coinMetrics[id]) >= 2
    /\ \A i \in 1..(Len(coinMetrics[id]) - 1) :
          coinMetrics[id][i].price < coinMetrics[id][i + 1].price

\* C12 as stated: after computeMetricSeries on each entity and one
\* normalizeAllSeries over both, every sample of a flat entity has normalized
\* trend <= 0 and every sample of a rising entity has normalized trend > 0.
C12_FlatNotAboveZeroRisingAbove ==
    normalizeCalls = 1 =>
        \A a, b \in DOMAIN coinMetrics :
            (FlatEntity(a) /\ RisingEntity(b)) =>
                /\ \A i \in 1..Len(coinMetrics[a]) :
                      RatLe(coinMetrics[a][i].trend, RatZero)
                /\ \A j \in 1..Len(coinMetrics[b]) :
                      RatLt(RatZero, coinMetrics[b][j].trend)

\* C12 amended: no sample of the flat entity has a normalized trend above 0
\* and no sample of the rising entity has a normalized trend below one of the
\* flat entity's; for window sizes of 2 and more the flat entity's trends are
\* <= 0 and <= every trend of the rising entity.
C12_FlatNotAboveRising ==
    normalizeCalls = 1 =>
        \A a, b \in DOMAIN coinMetrics :
            (FlatEntity(a) /\ RisingEntity(b)) =>
                \A i \in 1..Len(coinMetrics[a]) :
                    /\ ~RatLt(RatZero, coinMetrics[a][i].trend)
                    /\ windowHours >= 2 => RatLe(coinMetrics[a][i].trend, RatZero)
                    /\ \A j \in 1..Len(coinMetrics[b]) :
                          /\ ~RatLt(coinMetrics[b][j].trend, coinMetrics[a][i].trend)
                          /\ windowHours >= 2 =>
                                RatLe(coinMetrics[a][i].trend, coinMetrics[b][j].trend)

\* a flat and a rising entity of three samples each, normalized under window
\* size 2: the flat trends are -1, a rising sample's trend is above 0
C12_Witness ==
    /\ normalizeCalls = 1
    /\ windowHours = 2
    /\ \E a, b \in DOMAIN coinMetrics :
          /\ FlatEntity(a) /\ Len(coinMetrics[a]) = 3
          /\ RisingEntity(b) /\ Len(coinMetrics[b]) = 3
          /\ \A i \in 1..3 : RatEq(coinMetrics[a][i].trend, ToRat(-1))
          /\ \E j \in 1..3 : RatLt(RatZero, coinMetrics[b][j].trend)

----------------------------------------------------------------------------
(* The automation pipeline, pipeline.ts: generate, upload, cleanup *)

FinalVideo == "crypto-mood-final.mp4"

\* names a file of config.outputDir can have
OutputNames == {"crypto-mood.mp4", FinalVideo, "audio.pcm", "token.json"}

\* file.endsWith('.mp4') || file.endsWith('.pcm')
Deletable(file) == file \in {"crypto-mood.mp4", FinalVideo, "audio.pcm"}

\* what `await generateVideo()` can resolve to: undefined, or a list of coins
GenerateResults ==
    { [defined |-> FALSE, list |-> <<>>],
      [defined |-> TRUE, list |-> <<>>],
      [defined |-> TRUE, list |-> <<"bitcoin">>],
      [defined |-> TRUE, list |-> <<"bitcoin", "ethereum">>] }

\* !coins || coins.length === 0
NoCoins(result) == ~result.defined \/ Len(result.list) = 0

InitPipeline ==
    /\ CacheIdle
    /\ PhysicsIdle
    /\ MetricsIdle
    /\ NormalizerIdle
    /\ SamplerIdle
    /\ MainIdle
    /\ pipePc = "generate"
    /\ pipeCoins = <<>>
    /\ outputFiles \in SUBSET OutputNames
    /\ pipeLog = <<>>
    /\ uploaded = FALSE
    /\ failure = "none"
    /\ exitCode = -1

\* step 1, generateVideo resolves; the run may have written any of its files
GenerateReturns ==
    /\ pipePc = "generate"
    /\ \E result \in GenerateResults, written \in SUBSET OutputNames :
          /\ pipeCoins' = result.list
          /\ outputFiles' = outputFiles \cup written
          /\ IF NoCoins(result)
             THEN pipePc' = "exited" /\ failure' = "generate" /\ exitCode' = 1
             ELSE pipePc' = "checkVideo" /\ UNCHANGED <<failure, exitCode>>
    /\ pipeLog' = Append(pipeLog, "generate")
    /\ UNCHANGED <<cacheVars, physVars, metricVars, normVars, samplerVars, mainVars, uploaded>>

\* step 1, generateVideo rejects: the catch logs and calls process.exit(1)
GenerateThrows ==
    /\ pipePc = "generate"
    /\ \E written \in SUBSET OutputNames : outputFiles' = outputFiles \cup written
    /\ pipePc' = "exited"
    /\ failure' = "generate"
    /\ exitCode' = 1
    /\ pipeLog' = Append(pipeLog, "generate")
    /\ UNCHANGED <<cacheVars, physVars, metricVars, normVars, samplerVars, mainVars,
                   pipeCoins, uploaded>>

\* a check of the video file that lets the pipeline go on whatever it finds
CheckVideoAlwaysPasses ==
    /\ pipePc = "checkVideo"
    /\ pipePc' = "upload"
    /\ UNCHANGED <<cacheVars, physVars, metricVars, normVars, samplerVars, mainVars,
                   pipeCoins, outputFiles, pipeLog, uploaded, failure, exitCode>>

\* if (!fs.existsSync(videoPath)) process.exit(1)
CheckVideo ==
    /\ pipePc = "checkVideo"
    /\ IF FinalVideo \in outputFiles
       THEN pipePc' = "upload" /\ UNCHANGED <<failure, exitCode>>
       ELSE pipePc' = "exited" /\ failure' = "video" /\ exitCode' = 1
    /\ UNCHANGED <<cacheVars, physVars, metricVars, normVars, samplerVars, mainVars,
                   pipeCoins, outputFiles, pipeLog, uploaded>>

\* step 2, uploader.uploadVideo(videoPath, coins) resolves
UploadSucceeds ==
    /\ pipePc = "upload"
    /\ uploaded' = TRUE
    /\ pipeLog' = Append(pipeLog, "upload")
    /\ pipePc' = "cleanup"
    /\ UNCHANGED <<cacheVars, physVars, metricVars, normVars, samplerVars, mainVars,
                   pipeCoins, outputFiles, failure, exitCode>>

\* step 2, uploader.uploadVideo rejects: the catch logs and calls process.exit(1)
UploadFails ==
    /\ pipePc = "upload"
    /\ pipeLog' = Append(pipeLog, "upload")
    /\ pipePc' = "exited"
    /\ failure' = "upload"
    /\ exitCode' = 1
    /\ UNCHANGED <<cacheVars, physVars, metricVars, normVars, samplerVars, mainVars,
                   pipeCoins, outputFiles, uploaded>>

\* step 3, every .mp4 and .pcm file of the output directory is deleted
CleanupCompletes ==
    /\ pipePc = "cleanup"
    /\ outputFiles' = {f \in outputFiles : ~Deletable(f)}
    /\ pipeLog' = Append(pipeLog, "cleanup")
    /\ pipePc' = "finished"
    /\ exitCode' = 0
    /\ UNCHANGED <<cacheVars, physVars, metricVars, normVars, samplerVars, mainVars,
                   pipeCoins, uploaded, failure>>

\* step 3, readdirSync or an unlinkSync throws after some files were deleted:
\* the catch logs it and the pipeline finishes without exit(1)
CleanupFails ==
    /\ pipePc = "cleanup"
    /\ \E deleted \in SUBSET {f \in outputFiles : Deletable(f)} :
          /\ deleted # {f \in outputFiles : Deletable(f)}
          /\ outputFiles' = outputFiles \ deleted
    /\ pipeLog' = Append(pipeLog, "cleanup")
    /\ failure' = "cleanup"
    /\ pipePc' = "finished"
    /\ exitCode' = 0
    /\ UNCHANGED <<cacheVars, physVars, metricVars, normVars, samplerVars, mainVars,
                   pipeCoins, uploaded>>

NextPipeline ==
    \/ GenerateReturns
    \/ GenerateThrows
    \/ CheckVideo
    \/ UploadSucceeds
    \/ UploadFails
    \/ CleanupCompletes
    \/ CleanupFails

SpecPipeline == InitPipeline /\ [][NextPipeline]_vars

(* Claims about the pipeline, checked under SpecPipeline *)

\* C16: the steps run in the order generate, upload, cleanup; upload is
\* attempted only when generation returned a non-empty coin list and the final
\* video file exists; cleanup is attempted only after the upload succeeded; a
\* failure of generation or upload, or a missing video file, exits with
\* status 1 and no step runs after it.
C16_StepsInOrder ==
    [][ /\ pipeLog' \in {<<>>, <<"generate">>, <<"generate", "upload">>,
                         <<"generate", "upload", "cleanup">>}
        /\ (Len(pipeLog') > Len(pipeLog) /\ pipeLog'[Len(pipeLog')] = "upload") =>
              /\ Len(pipeCoins) > 0
              /\ FinalVideo \in outputFiles
              /\ failure = "none"
        /\ (Len(pipeLog') > Len(pipeLog) /\ pipeLog'[Len(pipeLog')] = "cleanup") =>
              /\ uploaded
              /\ failure = "none"
        /\ failure' \in {"generate", "video", "upload"} => exitCode' = 1
        /\ (pipePc' = "upload" /\ pipePc # "upload") => FinalVideo \in outputFiles'
        /\ exitCode = 1 => pipeLog' = pipeLog ]_vars

\* a run that went through all three steps with two coins
C16_Witness ==
    /\ pipePc = "finished"
    /\ pipeLog = <<"generate", "upload", "cleanup">>
    /\ Len(pipeCoins) = 2
    /\ uploaded
    /\ exitCode = 0
    /\ FinalVideo \notin outputFiles

----------------------------------------------------------------------------
(* The hop cycle of PhysicsWorld.update over a longer run: the frame loop  *)
(* of main with sampled metrics inside the normalized ranges                *)

(* Bounds of the model *)
MaxHopFrames == 8               \* frames of the loop explored

\* what getMetricsAt returns on a normalized series: trend in [-1, 1], vol in [0, 1]
HopSamples ==
    { Sampled(ToRat(1), ToRat(0)),
      Sampled(Rat(-1, 4), Rat(1, 2)) }

\* initial timers: one step exactly, less than one step, more than one step
HopInitialTimers == {dtMs, 10 * 1000, 40 * 1000}

\* the engine's results explored along the hop cycle: at rest, or thrown
\* against the left wall faster than STUN_VELOCITY
HopEngineOutcomes ==
    { [position |-> <<54000, 88000>>, velocity |-> <<0, 0>>],
      [position |-> <<10200, 88000>>, velocity |-> <<-960, 1280>>] }

\* the map handed to world.update: the sampled numbers in milli fixed point
ToPhysics(sampled) ==
    [id \in DOMAIN sampled |->
        [trend |-> ToMilli(sampled[id].trend), vol |-> ToMilli(sampled[id].vol)]]

InitHop ==
    /\ CacheIdle
    /\ PipelineIdle
    /\ MetricsIdle
    /\ NormalizerIdle
    /\ SamplerIdle
    /\ MainIdle
    /\ coinBodies \in [CoinIds ->
          {NewCoinBody(p, t) : p \in SpawnPositions, t \in HopInitialTimers}]
    /\ frameNo = 0

\* one pass of the frame loop: currentMetrics is filled, then world.update
HopFrame ==
    /\ frameNo < MaxHopFrames
    /\ \E sampled \in [CoinIds -> HopSamples] :
          /\ currentMetrics' = sampled
          /\ UpdateWorld(ToPhysics(sampled), HopEngineOutcomes)
    /\ frameNo' = frameNo + 1
    /\ UNCHANGED <<cacheVars, pipeVars, metricVars, normVars, mainVars, currentDataTime>>

NextHop == HopFrame

SpecHop == InitHop /\ [][NextHop]_vars

(* Claims about the hop cycle, checked under SpecHop *)

\* C22: in an update that runs the idle logic of a body (the body was not
\* hopping and is not stunned after the stun check) the countdown is
\* decremented by exactly dt; the body starts hopping in exactly the update
\* where the decremented countdown is <= 0, and then the force-frame counter
\* is 5 and the direction is one of the draws.
C22_IdleCountsDownThenHops ==
    [][ frameNo' = frameNo + 1 =>
          \A id \in CoinIds :
              (~coinBodies[id].isHopping /\ ~coinBodies'[id].isStunned) =>
                  /\ coinBodies'[id].timeUntilNextHop =
                        CountDown(coinBodies[id].timeUntilNextHop, dtMs)
                  /\ coinBodies'[id].isHopping <=>
                        RunOut(coinBodies[id].timeUntilNextHop - dtMs)
                  /\ coinBodies'[id].isHopping =>
                        /\ coinBodies'[id].hopFrameCount = 5
                        /\ coinBodies'[id].hopAngle \in RandomAngles
                  /\ ~coinBodies'[id].isHopping =>
                        /\ coinBodies'[id].timeUntilNextHop > 0
                        /\ coinBodies'[id].hopFrameCount = coinBodies[id].hopFrameCount ]_vars

\* a body whose timer of exactly one step ran out to 0 in the first update:
\* hopping, five force frames ahead, direction a quarter turn
C22_Witness ==
    /\ frameNo = 1
    /\ \E id \in CoinIds :
          /\ coinBodies[id].timeUntilNextHop = 0
          /\ coinBodies[id].isHopping
          /\ coinBodies[id].hopFrameCount = 5
          /\ coinBodies[id].hopAngle = 1

\* the normalized stability update computes for a body from the frame's sample
StabilityOf(id) ==
    NormSharpe(ToMilli(currentMetrics'[id].trend), coinBodies'[id].smoothedVol)

\* C23 as stated: while hopping with force frames left, every update (in which
\* the stun check does not fire) applies the stored force once and takes one
\* off the counter; a body is never hopping with counter 0 at the end of an
\* update.
C23_HopFramesThenIdle ==
    [][ frameNo' = frameNo + 1 =>
          \A id \in CoinIds :
              /\ (coinBodies[id].isHopping /\ coinBodies[id].hopFrameCount > 0
                    /\ ~coinBodies'[id].isStunned) =>
                    /\ coinBodies'[id].force =
                          HopForce(coinBodies[id].hopAngle, coinBodies[id].hopForceMagnitude)
                    /\ coinBodies'[id].hopFrameCount = coinBodies[id].hopFrameCount - 1
              /\ ~(coinBodies'[id].isHopping /\ coinBodies'[id].hopFrameCount = 0) ]_vars

\* C23 amended: the same about the force frames; the body goes back to idle,
\* and the next countdown is set, in the update that finds the counter at 0,
\* so a body is hopping with counter 0 at the end of the update that applied
\* its last force frame, and of no other.
C23_HopFramesThenIdleOneUpdateLater ==
    [][ frameNo' = frameNo + 1 =>
          \A id \in CoinIds :
              /\ (coinBodies[id].isHopping /\ coinBodies[id].hopFrameCount > 0
                    /\ ~coinBodies'[id].isStunned) =>
                    /\ coinBodies'[id].force =
                          HopForce(coinBodies[id].hopAngle, coinBodies[id].hopForceMagnitude)
                    /\ coinBodies'[id].hopFrameCount = coinBodies[id].hopFrameCount - 1
                    /\ coinBodies'[id].isHopping
              /\ (coinBodies[id].isHopping /\ coinBodies[id].hopFrameCount = 0
                    /\ ~coinBodies'[id].isStunned) =>
                    /\ ~coinBodies'[id].isHopping
                    /\ coinBodies'[id].force = <<0, 0>>
                    /\ coinBodies'[id].timeUntilNextHop = NextHopInterval(StabilityOf(id))
              /\ (coinBodies'[id].isHopping /\ coinBodies'[id].hopFrameCount = 0) =>
                    /\ coinBodies[id].isHopping
                    /\ coinBodies[id].hopFrameCount = 1 ]_vars

\* a body at the end of the update that applied its last force frame:
\* still hopping, counter 0, the force on the body
C23_Witness ==
    \E id \in CoinIds :
        /\ coinBodies[id].isHopping
        /\ coinBodies[id].hopFrameCount = 0
        /\ coinBodies[id].force # <<0, 0>>
        /\ coinBodies[id].force =
              HopForce(coinBodies[id].hopAngle, coinBodies[id].hopForceMagnitude)

\* values of the normalized stability, in thousandths, to compare against
StabilityGrid == {0, 250, 500, 750, 1000}

\* C24: with trend in [-1, 1] and smoothed volatility >= 0 the normalized
\* stability s lies in [0, 1]; the force stored at hop start is
\* radius^2 * 0.0002 * (0.05 + 2.95 s), with factor in [0.05, 3.0], the
\* countdown set at hop end is 150 + 3850 s ms, in [150, 4000], and both are
\* non-decreasing in s.
C24_StabilityScalesForceAndInterval ==
    [][ frameNo' = frameNo + 1 =>
          \A id \in CoinIds :
              LET st == StabilityOf(id)
                  radius == coinBodies'[id].radius
                  area == Div(radius * radius, 1000)
                  mag == coinBodies'[id].hopForceMagnitude
                  timer == coinBodies'[id].timeUntilNextHop
              IN  /\ coinBodies'[id].smoothedVol >= 0
                  /\ st # NaN /\ st >= 0 /\ st <= 1000
                  /\ (~coinBodies[id].isHopping /\ coinBodies'[id].isHopping) =>
                        /\ mag = Div(area * (50 + Div(2950 * st, 1000)) * 2, 100)
                        /\ mag >= Div(area * 50 * 2, 100)
                        /\ mag <= Div(area * 3000 * 2, 100)
                        /\ \A s2 \in StabilityGrid :
                              /\ st <= s2 => mag <= HopStrength(radius, s2)
                              /\ s2 <= st => HopStrength(radius, s2) <= mag
                  /\ (coinBodies[id].isHopping /\ ~coinBodies'[id].isHopping
                        /\ ~coinBodies'[id].isStunned) =>
                        /\ timer = 150 * 1000 + 3850 * st
                        /\ timer >= 150 * 1000
                        /\ timer <= 4000 * 1000
                        /\ \A s2 \in StabilityGrid :
                              /\ st <= s2 => timer <= NextHopInterval(s2)
                              /\ s2 <= st => NextHopInterval(s2) <= timer ]_vars

\* a body at the end of a hop made under full stability: the countdown is
\* 4000 ms and the stored force has the factor 3.0
C24_Witness ==
    \E id \in CoinIds :
        /\ ~coinBodies[id].isHopping
        /\ ~coinBodies[id].isStunned
        /\ coinBodies[id].timeUntilNextHop = 4000 * 1000
        /\ coinBodies[id].hopFrameCount = 0
        /\ coinBodies[id].hopForceMagnitude > 0
        /\ \E r \in r_min..r_max :
              coinBodies[id].hopForceMagnitude = Div(Div(r * r, 1000) * 3000 * 2, 100)

----------------------------------------------------------------------------
(* The radius step of PhysicsWorld.update under a constant sample: the      *)
(* frame loop of main while the sampled metrics of a body do not change     *)

(* Bounds of the model *)
MaxRadiusFrames == 16           \* frames of the loop explored

\* what getMetricsAt returns and keeps returning: a target equal to the start
\* radius, one 4.2 above it, the two clamped ones, and a trend that is NaN
RadiusSamples ==
    { Sampled(ToRat(0), ToRat(0)),
      Sampled(Rat(1, 25), Rat(1, 2)),
      Sampled(ToRat(1), ToRat(0)),
      Sampled(ToRat(-1), ToRat(1)),
      Sampled(RatNaN, ToRat(0)) }

InitRadius ==
    /\ CacheIdle
    /\ PipelineIdle
    /\ MetricsIdle
    /\ NormalizerIdle
    /\ MainIdle
    /\ currentDataTime = <<0, 1>>
    /\ currentMetrics \in [CoinIds -> RadiusSamples]
    /\ coinBodies \in [CoinIds -> {NewCoinBody(p, t) : p \in SpawnPositions, t \in HopInitialTimers}]
    /\ frameNo = 0

\* one frame of main's simulation loop with the sample of the frame before
RadiusFrame ==
    /\ frameNo < MaxRadiusFrames
    /\ UpdateWorld(ToPhysics(currentMetrics), HopEngineOutcomes)
    /\ frameNo' = frameNo + 1
    /\ UNCHANGED <<cacheVars, pipeVars, metricVars, normVars, mainVars, samplerVars>>

NextRadius == RadiusFrame

SpecRadius == InitRadius /\ [][NextRadius]_vars

\* r_target of the update for the sample of this frame, centi (NaN if the
\* trend is)
TargetOf(id) ==
    LET trend == ToMilli(currentMetrics[id].trend)
    IN  IF trend = NaN THEN NaN
        ELSE MathMax(2000, MathMin(13000, 4200 + Div(4200 * Div(2500 * trend, 1000), 1000)))

\* 0.05 * (target - radius) for the radius before the update, centi
FollowStep(id) == Div((TargetOf(id) - coinBodies[id].radius) * 50, 1000)

\* C25 (as stated): in every update with a sample whose trend is a number
\* the new radius is old + 0.05 * (target - old); it never jumps to the target, and under a
\* constant target the gap shrinks in every update until the radius reaches
\* the target.
C25_RadiusFollowsTarget ==
    [][ frameNo' = frameNo + 1 =>
          \A id \in CoinIds :
              LET old == coinBodies[id].radius
                  new == coinBodies'[id].radius
                  target == TargetOf(id)
              IN  target # NaN =>
                      /\ new = old + FollowStep(id)
                      /\ old # target => new # target
                      /\ old # target => Abs(target - new) < Abs(target - old) ]_vars

\* C25 (amended): in every update with a sample the new radius is
\* old + 0.05 * (target - old) when that step is larger than 0.1 in absolute
\* value, and the old radius otherwise (also when the trend is not a
\* number); it never jumps to the target; under a constant target the gap
\* shrinks in every update whose step exceeds 0.1, after which the radius
\* stays where it is, short of the target.
C25_RadiusFollowsTargetAboveThreshold ==
    [][ frameNo' = frameNo + 1 =>
          \A id \in CoinIds :
              LET old == coinBodies[id].radius
                  new == coinBodies'[id].radius
                  target == TargetOf(id)
                  moves == target # NaN /\ Abs(FollowStep(id)) > 10
              IN  /\ moves => new = old + FollowStep(id)
                  /\ ~moves => new = old
                  /\ new = target => old = target
                  /\ moves => Abs(target - new) < Abs(target - old) ]_vars

\* a radius that has followed its target and has come to rest short of it:
\* the step is no longer above 0.1 although the gap is not zero
C25_Witness ==
    \E id \in CoinIds :
        /\ TargetOf(id) # NaN
        /\ coinBodies[id].radius # r0
        /\ coinBodies[id].radius # TargetOf(id)
        /\ Abs(FollowStep(id)) <= 10
        /\ FollowStep(id) # 0

----------------------------------------------------------------------------
(* Interpolation of getMetricsAt, checked under SpecSampler *)

\* x lies between a and b, whichever of the two is larger
RatBetween(x, a, b) ==
    \/ RatLe(a, x) /\ RatLe(x, b)
    \/ RatLe(b, x) /\ RatLe(x, a)

\* x is the value at time t of the line through (t0, a) and (t1, b), t0 < t1:
\* x * (t1 - t0) = a * (t1 - t) + b * (t - t0)
OnTheLine(x, t, t0, a, t1, b) ==
    RatEq(RatMul(x, RatSub(t1, t0)),
          RatAdd(RatMul(a, RatSub(t1, t)), RatMul(b, RatSub(t, t0))))

\* C26: on a series with strictly increasing timestamps a query at a time t
\* with S[i].timestamp <= t <= S[i+1].timestamp returns trend and volatility
\* linearly interpolated by the position of t between the two timestamps;
\* each value lies between the two samples' values, and inside [-1, 1] and
\* [0, 1] on a normalized series.
C26_InterpolatedBetweenNeighbours ==
    \A id \in DOMAIN currentMetrics :
        LET series == coinMetrics[id]
            t == currentDataTime
            got == currentMetrics[id]
        IN  StrictlyIncreasing(series) =>
                \A i \in 1..(Len(series) - 1) :
                    LET a == series[i]
                        b == series[i + 1]
                        t0 == ToRat(a.timestamp)
                        t1 == ToRat(b.timestamp)
                    IN  (RatLe(t0, t) /\ RatLe(t, t1)) =>
                            /\ OnTheLine(got.trend, t, t0, a.trend, t1, b.trend)
                            /\ OnTheLine(got.vol, t, t0, a.volatility, t1, b.volatility)
                            /\ RatBetween(got.trend, a.trend, b.trend)
                            /\ RatBetween(got.vol, a.volatility, b.volatility)
                            /\ RatLe(ToRat(-1), got.trend) /\ RatLe(got.trend, ToRat(1))
                            /\ RatLe(ToRat(0), got.vol) /\ RatLe(got.vol, ToRat(1))

\* a query a quarter of the way between two samples two hours apart whose
\* values differ: the answer is strictly between them and not their mean
C26_Witness ==
    \E id \in DOMAIN currentMetrics :
        LET series == coinMetrics[id]
            got == currentMetrics[id]
        IN  /\ StrictlyIncreasing(series)
            /\ \E i \in 1..(Len(series) - 1) :
                  /\ series[i + 1].timestamp = series[i].timestamp + 2
                  /\ currentDataTime = RatAdd(ToRat(series[i].timestamp), Rat(1, 2))
                  /\ RatLt(series[i].trend, got.trend)
                  /\ RatLt(got.trend, series[i + 1].trend)
                  /\ RatLt(got.vol, series[i].volatility)
                  /\ RatLt(series[i + 1].volatility, got.vol)
                  /\ ~RatEq(RatAdd(got.trend, got.trend),
                            RatAdd(series[i].trend, series[i + 1].trend))

----------------------------------------------------------------------------
(* Order of the samples across normalizeAllSeries, checked under            *)
(* SpecNormalizer                                                           *)

\* the positions <<id, i>> of the samples of the map
SamplePositions(all) ==
    {p \in (DOMAIN all) \X (1..MaxSamples) : p[2] <= Len(all[p[1]])}

\* C27: normalizeAllSeries preserves order: for any two samples a and b, of
\* one entity or of two, a.trend <= b.trend before the call implies
\* a.trend <= b.trend after it, and the same for volatility.
C27_NormalizationKeepsOrder ==
    [][ normalizeCalls' = normalizeCalls + 1 =>
          \A p \in SamplePositions(coinMetrics) : \A q \in SamplePositions(coinMetrics) :
              LET a == coinMetrics[p[1]][p[2]]
                  b == coinMetrics[q[1]][q[2]]
                  na == coinMetrics'[p[1]][p[2]]
                  nb == coinMetrics'[q[1]][q[2]]
              IN  /\ RatLe(a.trend, b.trend) => RatLe(na.trend, nb.trend)
                  /\ RatLe(a.volatility, b.volatility) =>
                        RatLe(na.volatility, nb.volatility) ]_vars

\* a normalized map in which the samples of two entities are strictly
\* ordered: trends -1, an inner value and 1, volatilities 0, an inner value
\* and 1
C27_Witness ==
    /\ normalizeCalls > 0
    /\ \E p \in SamplePositions(coinMetrics) : \E q \in SamplePositions(coinMetrics) :
       \E r \in SamplePositions(coinMetrics) :
          LET a == coinMetrics[p[1]][p[2]]
              b == coinMetrics[q[1]][q[2]]
              c == coinMetrics[r[1]][r[2]]
          IN  /\ p[1] # q[1]
              /\ a.trend = ToRat(-1) /\ RatLt(a.trend, b.trend)
              /\ RatLt(b.trend, c.trend) /\ c.trend = ToRat(1)
    /\ \E p \in SamplePositions(coinMetrics) : \E q \in SamplePositions(coinMetrics) :
       \E r \in SamplePositions(coinMetrics) :
          LET a == coinMetrics[p[1]][p[2]]
              b == coinMetrics[q[1]][q[2]]
              c == coinMetrics[r[1]][r[2]]
          IN  /\ a.volatility = RatZero /\ RatLt(a.volatility, b.volatility)
              /\ RatLt(b.volatility, c.volatility) /\ c.volatility = ToRat(1)

----------------------------------------------------------------------------
(* fetchWithCache, coingecko.ts: the file cache in front of the two         *)
(* CoinGecko requests                                                       *)

CACHE_TTL_MS == 12 * 60 * 60 * 1000

(* Bounds of the model *)
MaxClockSteps == 4              \* steps the clock advances in a run

\* the clock advances in steps of six hours, so that an entry is seen at the
\* ages 0, 6 h, 12 h (the TTL itself), 18 h and 24 h
ClockStep == 6 * 60 * 60 * 1000

\* the keys of fetchTopCoins and of fetchMarketChart for one coin
CacheKeys == {"markets_usd_top10", "market_chart_bitcoin_30d"}

\* what fetchFn can do: resolve with one of two payloads, or reject
Threw == "threw"
FetchOutcomes == {"payload 1", "payload 2", Threw}

\* no file at cachePath
NoEntry == [exists |-> FALSE, mtimeMs |-> 0, data |-> "none"]

\* fetchWithCache(key, fetchFn) at time `time`; fetchOutcome is what fetchFn
\* does if it is called.  The result is the cache files afterwards and the
\* record of the call.  fs.writeJson does not create the directory: without
\* it the write rejects inside the try block and the catch rethrows.
fetchWithCache(files, dirExists, time, key, fetchOutcome) ==
    LET entry == files[key]
        age == time - entry.mtimeMs
    IN  IF entry.exists /\ age < CACHE_TTL_MS
        THEN [files |-> files,
              call |-> [key |-> key, fetchCalls |-> 0, fetched |-> "not called",
                        outcome |-> "returned", data |-> entry.data]]
        ELSE IF fetchOutcome = Threw
        THEN [files |-> files,
              call |-> [key |-> key, fetchCalls |-> 1, fetched |-> Threw,
                        outcome |-> "threw", data |-> "none"]]
        ELSE IF ~dirExists
        THEN [files |-> files,
              call |-> [key |-> key, fetchCalls |-> 1, fetched |-> fetchOutcome,
                        outcome |-> "threw", data |-> "none"]]
        ELSE [files |-> [files EXCEPT ![key] =
                            [exists |-> TRUE, mtimeMs |-> time, data |-> fetchOutcome]],
              call |-> [key |-> key, fetchCalls |-> 1, fetched |-> fetchOutcome,
                        outcome |-> "returned", data |-> fetchOutcome]]

\* a process start: nothing in the repository creates config.cacheDir, so it
\* either is there or is not, and no cache file has been written in it
InitCache ==
    /\ PipelineIdle
    /\ PhysicsIdle
    /\ MetricsIdle
    /\ NormalizerIdle
    /\ SamplerIdle
    /\ MainIdle
    /\ cacheDirExists \in BOOLEAN
    /\ cacheFiles = [key \in CacheKeys |-> NoEntry]
    /\ now = 0
    /\ cacheCall = NoCall

\* one call of fetchWithCache, by fetchTopCoins or fetchMarketChart
FetchWithCache ==
    /\ \E key \in CacheKeys : \E fetchOutcome \in FetchOutcomes :
          LET done == fetchWithCache(cacheFiles, cacheDirExists, now, key, fetchOutcome)
          IN  /\ cacheFiles' = done.files
              /\ cacheCall' = done.call
    /\ UNCHANGED <<cacheDirExists, now>>
    /\ UNCHANGED <<pipeVars, physVars, metricVars, normVars, samplerVars, mainVars>>

\* time passes between two calls
ClockAdvances ==
    /\ now < MaxClockSteps * ClockStep
    /\ now' = now + ClockStep
    /\ UNCHANGED <<cacheDirExists, cacheFiles, cacheCall>>
    /\ UNCHANGED <<pipeVars, physVars, metricVars, normVars, samplerVars, mainVars>>

NextCache == FetchWithCache \/ ClockAdvances

SpecCache == InitCache /\ [][NextCache]_vars

(* Claims about fetchWithCache, checked under SpecCache *)

\* the entry of the key is younger than the TTL when the call is made
Fresh(key) ==
    /\ cacheFiles[key].exists
    /\ now - cacheFiles[key].mtimeMs < 12 * 60 * 60 * 1000

\* C28: fetchWithCache never serves an entry aged 12 hours or more; an entry
\* younger than the TTL is returned without calling fetchFn; otherwise
\* fetchFn is called once and its result is written to the cache and
\* returned; when fetchFn throws, the error propagates, nothing is written
\* to the cache and the stale entry is not returned.
C28_FreshServedElseFetchedAndCached ==
    [][ now' = now =>
          LET call == cacheCall'
              key == call.key
          IN  /\ (call.outcome = "returned" /\ call.fetchCalls = 0) => Fresh(key)
              /\ Fresh(key) =>
                    /\ call.outcome = "returned"
                    /\ call.data = cacheFiles[key].data
                    /\ call.fetchCalls = 0
                    /\ cacheFiles' = cacheFiles
              /\ ~Fresh(key) => call.fetchCalls = 1
              /\ (~Fresh(key) /\ call.fetched # Threw) =>
                    /\ call.outcome = "returned"
                    /\ call.data = call.fetched
                    /\ cacheFiles'[key] =
                          [exists |-> TRUE, mtimeMs |-> now, data |-> call.fetched]
              /\ (~Fresh(key) /\ call.fetched = Threw) =>
                    /\ call.outcome = "threw"
                    /\ cacheFiles' = cacheFiles ]_vars

====
